---- MODULE Spec2Model ----
(***************************************************************************)
(* Verification model of the string matchers, the timing harness, the      *)
(* benchmark driver (Task_03_Sadism.py) and the upper-bound binary search  *)
(* (Task_02_binary_search.py).                                             *)
(*                                                                         *)
(* Python sequences are 0-indexed; TLA+ sequences are 1-indexed.  The      *)
(* model keeps the Python indices in its variables and reads sequences     *)
(* through At(s, k) == s[k + 1].                                           *)
(***************************************************************************)
EXTENDS Integers, Sequences, FiniteSets, TLC

VARIABLES
    pc,          \* position of the running function
    algo,        \* which matcher is running: "bmh", "kmp" or "rk"
    text,        \* argument text
    pattern,     \* argument pattern
    base,        \* rabin_karp_search parameter base
    mod,         \* rabin_karp_search parameter mod
    i,           \* local i of the running function
    j,           \* local j of the running function
    shift,       \* boyer_moore_horspool: the dict shift
    lps,         \* kmp_search: the list lps
    length,      \* kmp_search: the local length
    h,           \* rabin_karp_search: the local h
    p_hash,      \* rabin_karp_search: the local p_hash
    t_hash,      \* rabin_karp_search: the local t_hash
    result,      \* the value returned by the running function
    iters,       \* history: iterations of the kmp_search scan loop so far
    number,      \* measure parameter number
    repeat,      \* measure parameter repeat
    t,           \* measure: the list of group totals built by Timer.repeat
    now,         \* the timer's clock
    t0,          \* clock value at the start of the running group
    cnt,         \* calls already made in the running group
    calls,       \* history: one entry per func(text, pat) invocation
    args0,       \* history: the (text, pat) pair measure was entered with
    t1,          \* main: text of the first corpus file
    t2,          \* main: text of the second corpus file
    results,     \* main: the list results
    cell,        \* main: position in the tests x patterns x algos loop nest
    timed,       \* history: number of calls of measure made by main
    report,      \* main: the printed "fastest" summary
    arr,         \* binary_search_upper_bound argument arr
    x,           \* binary_search_upper_bound argument x
    left,        \* binary_search_upper_bound local left
    right,       \* binary_search_upper_bound local right
    iterations,  \* binary_search_upper_bound local iterations
    upper_bound  \* binary_search_upper_bound local upper_bound

matcherVars == <<algo, text, pattern, base, mod, i, j, shift, lps, length,
                 h, p_hash, t_hash, iters>>
measureVars == <<number, repeat, t, now, t0, cnt, calls, args0>>
mainVars    == <<t1, t2, results, cell, timed, report>>
searchVars  == <<arr, x, left, right, iterations, upper_bound>>
vars == <<pc, result, matcherVars, measureVars, mainVars, searchVars>>

----------------------------------------------------------------------------
(* Bounds of the model *)

MaxTextLen == 6
MaxPatLen  == 6
MaxRkTextLen == 5
MaxRkPatLen  == 4
MaxBase    == 2
MaxMod     == 3
MaxNumber  == 2
MaxRepeat  == 3
MaxCorpusLen == 3
MaxArrLen  == 4
MaxVal     == 3

(* Program constants *)

DefaultBase == 256
DefaultMod  == 1000000007
DefaultNumber == 300
DefaultRepeat == 7

Alphabet == {"a", "b"}

----------------------------------------------------------------------------
(* Python values *)

PyInt(v) == [type |-> "int", val |-> v]
PyNum(v) == [type |-> "float", val |-> v]
PyNone   == [type |-> "NoneType", val |-> 0]

At(s, k) == s[k + 1]

\* the value the matchers return when the pattern does not occur: return -1
\* faulty variant: None in place of -1
NotFoundNone == PyNone
NotFound == PyInt(-1)

\* s[a : b] for 0 <= a <= b <= len(s)
Slice(s, a, b) == SubSeq(s, a + 1, b)

\* ord(ch) for the characters of Alphabet
Ord(ch) == CASE ch = "a" -> 97
             [] ch = "b" -> 98

StringsUpTo(k) == UNION {[1..q -> Alphabet] : q \in 0..k}

\* a % md as Python computes it: for md > 0 the result is in 0..md-1, also
\* when a is negative
\* faulty variant: the truncating remainder of C, negative for negative a
PyModTrunc(a, md) == IF a >= 0 THEN a % md ELSE 0 - ((0 - a) % md)
PyMod(a, md) == a % md

(* Python integers are unbounded; TLC's are 32 bits wide.  The products     *)
(* below are therefore reduced modulo md after every doubling, which gives  *)
(* the same residue.  (a * b) % md for 0 <= b.                              *)
RECURSIVE MulMod(_, _, _)
MulMod(a, b, md) ==
    IF a = 0 \/ b = 0 THEN 0
    ELSE LET half == MulMod(a, b \div 2, md)
             dbl  == PyMod(half + half, md)
         IN  IF b % 2 = 1 THEN PyMod(dbl + PyMod(a, md), md) ELSE dbl

\* pow(b, e, md)
RECURSIVE PowMod(_, _, _)
PowMod(b, e, md) ==
    IF e = 0 THEN PyMod(1, md) ELSE MulMod(PowMod(b, e - 1, md), b, md)

n == Len(text)
m == Len(pattern)

----------------------------------------------------------------------------
(* Reference definitions the matchers are compared with *)

Occurs(txt, pat, k) ==
    /\ k >= 0
    /\ k + Len(pat) <= Len(txt)
    /\ \A q \in 1..Len(pat) : txt[k + q] = pat[q]

Occurrences(txt, pat) == {k \in 0..Len(txt) : Occurs(txt, pat, k)}

MinOf(S) == CHOOSE k \in S : \A q \in S : k <= q

\* naive O(n*m) search: leftmost occurrence, -1 when there is none
Naive(txt, pat) ==
    IF Occurrences(txt, pat) = {} THEN -1 ELSE MinOf(Occurrences(txt, pat))

----------------------------------------------------------------------------
(* boyer_moore_horspool *)

EmptyDict == [c \in {} |-> 0]

\* d[k] = v
DictSet(d, k, v) == [c \in DOMAIN d \cup {k} |-> IF c = k THEN v ELSE d[c]]

\* d.get(k, dflt)
DictGet(d, k, dflt) == IF k \in DOMAIN d THEN d[k] ELSE dflt

\* value stored for the character at index k of the pattern
\* faulty variant: the shift counted from the end of the whole pattern
ShiftValueFull(pat, k) == Len(pat) - k
ShiftValue(pat, k) == Len(pat) - 1 - k

\* the shift applied after a mismatch at alignment k
\* faulty variant: the table is ignored and the alignment moves by one
BmhAdvanceOne(d, txt, pat, k) == 1
BmhAdvance(d, txt, pat, k) ==
    DictGet(d, At(txt, k + (Len(pat) - 1)), Len(pat))

\* the inner while loop: compares right to left from index q, returns the final j
RECURSIVE BmhCompare(_, _, _, _)
BmhCompare(txt, pat, k, q) ==
    IF q >= 0 /\ At(pat, q) = At(txt, k + q)
    THEN BmhCompare(txt, pat, k, q - 1)
    ELSE q

BmhEntry ==
    /\ pc = "start" /\ algo = "bmh"
    /\ IF m = 0
       THEN /\ result' = PyInt(0)
            /\ pc' = "done"
            /\ UNCHANGED <<shift, i>>
       ELSE IF m > n
       THEN /\ result' = NotFound
            /\ pc' = "done"
            /\ UNCHANGED <<shift, i>>
       ELSE /\ shift' = EmptyDict
            /\ i' = 0
            /\ pc' = "bmh_build"
            /\ UNCHANGED result
    /\ UNCHANGED <<algo, text, pattern, base, mod, j, lps, length, h, p_hash,
                   t_hash, iters, measureVars, mainVars, searchVars>>

\* one iteration of: for i, ch in enumerate(pattern[:-1])
BmhBuild ==
    /\ pc = "bmh_build"
    /\ i < m - 1
    /\ shift' = DictSet(shift, At(pattern, i), ShiftValue(pattern, i))
    /\ i' = i + 1
    /\ UNCHANGED <<pc, algo, text, pattern, base, mod, j, lps, length, h, p_hash,
                   t_hash, iters, result, measureVars, mainVars, searchVars>>

BmhBuildDone ==
    /\ pc = "bmh_build"
    /\ i >= m - 1
    /\ i' = 0
    /\ pc' = "bmh_scan"
    /\ UNCHANGED <<algo, text, pattern, base, mod, j, shift, lps, length, h,
                   p_hash, t_hash, iters, result, measureVars, mainVars, searchVars>>

\* one iteration of: while i <= n - m
BmhScan ==
    /\ pc = "bmh_scan"
    /\ i <= n - m
    /\ j' = BmhCompare(text, pattern, i, m - 1)
    /\ IF j' < 0
       THEN /\ result' = PyInt(i)
            /\ pc' = "done"
            /\ i' = i
       ELSE /\ i' = i + BmhAdvance(shift, text, pattern, i)
            /\ UNCHANGED <<pc, result>>
    /\ UNCHANGED <<algo, text, pattern, base, mod, shift, lps, length, h, p_hash,
                   t_hash, iters, measureVars, mainVars, searchVars>>

BmhNotFound ==
    /\ pc = "bmh_scan"
    /\ i > n - m
    /\ result' = NotFound
    /\ pc' = "done"
    /\ UNCHANGED <<matcherVars, measureVars, mainVars, searchVars>>

BmhNext == BmhEntry \/ BmhBuild \/ BmhBuildDone \/ BmhScan \/ BmhNotFound

----------------------------------------------------------------------------
(* kmp_search *)

\* lst[k] = v on a list
ListSet(lst, k, v) == [lst EXCEPT ![k + 1] = v]

\* building lps, mismatch with length != 0: length = lps[length - 1]
\* faulty variant: the prefix length restarts from zero
LpsFallbackZero(lst, q) == 0
LpsFallback(lst, q) == At(lst, q - 1)

\* scanning, mismatch with j != 0: j = lps[j - 1]
\* faulty variant: off by one, j = lps[j]
ScanFallbackSame(lst, q) == At(lst, q)
ScanFallback(lst, q) == At(lst, q - 1)

KmpEntry ==
    /\ pc = "start" /\ algo = "kmp"
    /\ IF m = 0
       THEN /\ result' = PyInt(0)
            /\ pc' = "done"
            /\ UNCHANGED <<lps, length, i>>
       ELSE IF m > n
       THEN /\ result' = NotFound
            /\ pc' = "done"
            /\ UNCHANGED <<lps, length, i>>
       ELSE /\ lps' = [k \in 1..m |-> 0]
            /\ length' = 0
            /\ i' = 1
            /\ pc' = "kmp_lps"
            /\ UNCHANGED result
    /\ UNCHANGED <<algo, text, pattern, base, mod, j, shift, h, p_hash, t_hash,
                   iters, measureVars, mainVars, searchVars>>

\* one iteration of: while i < m
KmpLpsStep ==
    /\ pc = "kmp_lps"
    /\ i < m
    /\ IF At(pattern, i) = At(pattern, length)
       THEN /\ length' = length + 1
            /\ lps' = ListSet(lps, i, length + 1)
            /\ i' = i + 1
       ELSE IF length # 0
       THEN /\ length' = LpsFallback(lps, length)
            /\ UNCHANGED <<lps, i>>
       ELSE /\ lps' = ListSet(lps, i, 0)
            /\ i' = i + 1
            /\ UNCHANGED length
    /\ UNCHANGED <<pc, algo, text, pattern, base, mod, j, shift, h, p_hash, t_hash,
                   iters, result, measureVars, mainVars, searchVars>>

KmpLpsDone ==
    /\ pc = "kmp_lps"
    /\ i >= m
    /\ i' = 0
    /\ j' = 0
    /\ pc' = "kmp_scan"
    /\ UNCHANGED <<algo, text, pattern, base, mod, shift, lps, length, h, p_hash,
                   t_hash, iters, result, measureVars, mainVars, searchVars>>

\* one iteration of: while i < n
KmpScanStep ==
    /\ pc = "kmp_scan"
    /\ i < n
    /\ iters' = iters + 1
    /\ IF At(text, i) = At(pattern, j)
       THEN /\ i' = i + 1
            /\ j' = j + 1
            /\ IF j + 1 = m
               THEN /\ result' = PyInt((i + 1) - (j + 1))
                    /\ pc' = "done"
               ELSE UNCHANGED <<result, pc>>
       ELSE IF j # 0
       THEN /\ j' = ScanFallback(lps, j)
            /\ UNCHANGED <<i, result, pc>>
       ELSE /\ i' = i + 1
            /\ UNCHANGED <<j, result, pc>>
    /\ UNCHANGED <<algo, text, pattern, base, mod, shift, lps, length, h, p_hash,
                   t_hash, measureVars, mainVars, searchVars>>

KmpNotFound ==
    /\ pc = "kmp_scan"
    /\ i >= n
    /\ result' = NotFound
    /\ pc' = "done"
    /\ UNCHANGED <<matcherVars, measureVars, mainVars, searchVars>>

KmpNext == KmpEntry \/ KmpLpsStep \/ KmpLpsDone \/ KmpScanStep \/ KmpNotFound

----------------------------------------------------------------------------
(* rabin_karp_search *)

\* (acc * base + ord(ch)) % mod
HashPush(acc, ch, b, md) == PyMod(MulMod(acc, b, md) + Ord(ch), md)

\* (t_hash - ord(ch) * h) % mod; the product is reduced modulo mod before the
\* subtraction, which leaves the residue unchanged
HashDrop(acc, ch, hh, md) == PyMod(acc - MulMod(hh, Ord(ch), md), md)

\* the guard of a reported match: equal hashes and equal characters
\* faulty variant: the hash alone is trusted
RkHashOnly(txt, pat, k, ph, th) == ph = th
RkMatches(txt, pat, k, ph, th) ==
    /\ ph = th
    /\ Slice(txt, k, k + Len(pat)) = pat

RkEntry ==
    /\ pc = "start" /\ algo = "rk"
    /\ IF m = 0
       THEN /\ result' = PyInt(0)
            /\ pc' = "done"
            /\ UNCHANGED <<h, p_hash, t_hash, i>>
       ELSE IF m > n
       THEN /\ result' = NotFound
            /\ pc' = "done"
            /\ UNCHANGED <<h, p_hash, t_hash, i>>
       ELSE /\ h' = PowMod(base, m - 1, mod)
            /\ p_hash' = 0
            /\ t_hash' = 0
            /\ i' = 0
            /\ pc' = "rk_init"
            /\ UNCHANGED result
    /\ UNCHANGED <<algo, text, pattern, base, mod, j, shift, lps, length, iters,
                   measureVars, mainVars, searchVars>>

\* one iteration of: for i in range(m)
RkInitStep ==
    /\ pc = "rk_init"
    /\ i < m
    /\ p_hash' = HashPush(p_hash, At(pattern, i), base, mod)
    /\ t_hash' = HashPush(t_hash, At(text, i), base, mod)
    /\ i' = i + 1
    /\ UNCHANGED <<pc, algo, text, pattern, base, mod, j, shift, lps, length, h,
                   iters, result, measureVars, mainVars, searchVars>>

RkInitDone ==
    /\ pc = "rk_init"
    /\ i >= m
    /\ i' = 0
    /\ pc' = "rk_window"
    /\ UNCHANGED <<algo, text, pattern, base, mod, j, shift, lps, length, h,
                   p_hash, t_hash, iters, result, measureVars, mainVars, searchVars>>

\* start of one iteration of: for i in range(n - m + 1) -- the hash test and
\* the test i < n - m
RkWindow ==
    /\ pc = "rk_window"
    /\ i < n - m + 1
    /\ IF RkMatches(text, pattern, i, p_hash, t_hash)
       THEN /\ result' = PyInt(i)
            /\ pc' = "done"
            /\ i' = i
       ELSE IF i < n - m
       THEN /\ pc' = "rk_drop"
            /\ UNCHANGED <<i, result>>
       ELSE /\ i' = i + 1
            /\ UNCHANGED <<pc, result>>
    /\ UNCHANGED <<algo, text, pattern, base, mod, j, shift, lps, length, h,
                   p_hash, t_hash, iters, measureVars, mainVars, searchVars>>

\* t_hash = (t_hash - ord(text[i]) * h) % mod
RkDrop ==
    /\ pc = "rk_drop"
    /\ t_hash' = HashDrop(t_hash, At(text, i), h, mod)
    /\ pc' = "rk_push"
    /\ UNCHANGED <<algo, text, pattern, base, mod, i, j, shift, lps, length, h,
                   p_hash, iters, result, measureVars, mainVars, searchVars>>

\* t_hash = (t_hash * base + ord(text[i + m])) % mod, then the next i
RkPush ==
    /\ pc = "rk_push"
    /\ t_hash' = HashPush(t_hash, At(text, i + m), base, mod)
    /\ i' = i + 1
    /\ pc' = "rk_window"
    /\ UNCHANGED <<algo, text, pattern, base, mod, j, shift, lps, length, h,
                   p_hash, iters, result, measureVars, mainVars, searchVars>>

RkNotFound ==
    /\ pc = "rk_window"
    /\ i >= n - m + 1
    /\ result' = NotFound
    /\ pc' = "done"
    /\ UNCHANGED <<matcherVars, measureVars, mainVars, searchVars>>

RkNext == RkEntry \/ RkInitStep \/ RkInitDone \/ RkWindow \/ RkDrop \/ RkPush
          \/ RkNotFound

----------------------------------------------------------------------------
(* measure *)

\* durations (in clock ticks) one call of func can take
Durations == {1, 2}

\* a / b as an exact fraction
Ratio(a, b) == <<a, b>>

\* min(lst), max(lst) for a non-empty list of numbers
ListMax(lst) ==
    CHOOSE v \in {lst[k] : k \in 1..Len(lst)} : \A q \in 1..Len(lst) : v >= lst[q]
ListMin(lst) ==
    CHOOSE v \in {lst[k] : k \in 1..Len(lst)} : \A q \in 1..Len(lst) : v <= lst[q]

\* return min(t) / number
\* faulty variant: the worst group in place of the best
MeasureValueMax(lst, num) == Ratio(ListMax(lst), num)
MeasureValue(lst, num) == Ratio(ListMin(lst), num)

\* Timer.repeat: the next group starts while fewer than `repeat` totals exist
MoreGroups(lst, rep) == Len(lst) < rep

\* Timer.timeit: _t0 = _timer()
MeasureGroupStart ==
    /\ pc = "m_repeat"
    /\ MoreGroups(t, repeat)
    /\ t0' = now
    /\ cnt' = 0
    /\ pc' = "m_inner"
    /\ UNCHANGED <<number, repeat, t, now, calls, args0, result, matcherVars,
                   mainVars, searchVars>>

\* one pass of the inner loop: the lambda calls func(text, pat)
MeasureCall ==
    /\ pc = "m_inner"
    /\ cnt < number
    /\ \E d \in Durations :
          /\ now' = now + d
          /\ calls' = Append(calls, [group |-> Len(t), dur |-> d,
                                     args |-> <<text, pattern>>])
    /\ cnt' = cnt + 1
    /\ UNCHANGED <<pc, number, repeat, t, t0, args0, result, matcherVars,
                   mainVars, searchVars>>

\* Timer.timeit: _t1 = _timer(); the group total _t1 - _t0 is appended
MeasureGroupEnd ==
    /\ pc = "m_inner"
    /\ cnt >= number
    /\ t' = Append(t, now - t0)
    /\ pc' = "m_repeat"
    /\ UNCHANGED <<number, repeat, now, t0, cnt, calls, args0, result,
                   matcherVars, mainVars, searchVars>>

MeasureReturn ==
    /\ pc = "m_repeat"
    /\ ~MoreGroups(t, repeat)
    /\ result' = PyNum(MeasureValue(t, number))
    /\ pc' = "done"
    /\ UNCHANGED <<matcherVars, measureVars, mainVars, searchVars>>

MeasureNext ==
    MeasureGroupStart \/ MeasureCall \/ MeasureGroupEnd \/ MeasureReturn

----------------------------------------------------------------------------
(* main *)

\* the literals exist_1, exist_2 and fake, shortened to the model's alphabet
Exist1 == <<"a", "b">>
Exist2 == <<"b", "a">>
Fake   == <<"b", "b">>

\* pat in txt
In(pat, txt) ==
    \E k \in 0..(Len(txt) - Len(pat)) : Slice(txt, k, k + Len(pat)) = pat

\* assert fake not in t1 and fake not in t2
\* faulty variant: only the first text is examined
FakeAbsentFirst(a, b) == ~In(Fake, a)
FakeAbsent(a, b) == ~In(Fake, a) /\ ~In(Fake, b)

AlgoNames == <<"Boyer-Moore (Horspool)", "Knuth-Morris-Pratt", "Rabin-Karp">>
TextNames == <<"text 1", "text 2">>
PatLabels == <<"exists", "fake">>

\* the loop nest tests x patterns x algos, flattened: cell k of NumCells
NumCells == Len(TextNames) * Len(PatLabels) * Len(AlgoNames)
CellText(k)  == At(TextNames, k \div (Len(PatLabels) * Len(AlgoNames)))
CellLabel(k) == At(PatLabels, (k \div Len(AlgoNames)) % Len(PatLabels))
CellAlgo(k)  == At(AlgoNames, k % Len(AlgoNames))

\* seconds one call of measure can return, as fractions of DefaultNumber
Seconds == {Ratio(d, DefaultNumber) : d \in {DefaultNumber, 2 * DefaultNumber}}

\* lst.sort(key = ...) and sorted(lst, key = ...) are stable: an entry comes
\* after the entries with a smaller key and the earlier entries with an equal
\* key; keys[k] is the key of lst[k]
StableSort(lst, keys) ==
    LET Rank(k) == 1 + Cardinality({q \in 1..Len(lst) :
                        \/ keys[q] < keys[k]
                        \/ keys[q] = keys[k] /\ q < k})
    IN  [p \in 1..Len(lst) |-> lst[CHOOSE k \in 1..Len(lst) : Rank(k) = p]]

\* the sum of the seconds (numerators over DefaultNumber) of the entries of lst
RECURSIVE SumSec(_)
SumSec(lst) ==
    IF lst = <<>> THEN 0 ELSE lst[Len(lst)][4][1] + SumSec(SubSeq(lst, 1, Len(lst) - 1))

\* sum_time(filter_fn), filter_fn accepting the text names in tns: the
\* (algo, total) pairs in ascending order of total; the totals dict keeps the
\* algorithms in order of first appearance
SumTime(res, tns) ==
    LET Keep(r) == r[1] \in tns
        kept == SelectSeq(res, Keep)
        HasAlgo(a) == \E k \in 1..Len(kept) : kept[k][3] = a
        names == SelectSeq(AlgoNames, HasAlgo)
        Total(a) == LET IsA(r) == r[3] = a IN SumSec(SelectSeq(kept, IsA))
        totals == [k \in 1..Len(names) |-> <<names[k], Total(names[k])>>]
    IN  StableSort(totals, [k \in 1..Len(totals) |-> totals[k][2]])

\* the listing printed for one (text, pattern label) group
Subset(res, tn, pl) ==
    LET Keep(r) == r[1] = tn /\ r[2] = pl
        kept == SelectSeq(res, Keep)
    IN  StableSort(kept, [k \in 1..Len(kept) |-> kept[k][4][1]])

MainRead ==
    /\ pc = "start"
    /\ \E a \in StringsUpTo(MaxCorpusLen), b \in StringsUpTo(MaxCorpusLen) :
          /\ t1' = a
          /\ t2' = b
    /\ pc' = "assert1"
    /\ UNCHANGED <<results, cell, timed, report, result, matcherVars,
                   measureVars, searchVars>>

\* assert exist_1 in t1
PreflightExist1 ==
    /\ pc = "assert1"
    /\ pc' = (IF In(Exist1, t1) THEN "assert2" ELSE "aborted")
    /\ UNCHANGED <<result, matcherVars, measureVars, mainVars, searchVars>>

\* assert exist_2 in t2
PreflightExist2 ==
    /\ pc = "assert2"
    /\ pc' = (IF In(Exist2, t2) THEN "assert3" ELSE "aborted")
    /\ UNCHANGED <<result, matcherVars, measureVars, mainVars, searchVars>>

\* assert fake not in t1 and fake not in t2; then results = []
PreflightFake ==
    /\ pc = "assert3"
    /\ IF FakeAbsent(t1, t2)
       THEN /\ pc' = "loop"
            /\ results' = <<>>
            /\ cell' = 0
       ELSE /\ pc' = "aborted"
            /\ UNCHANGED <<results, cell>>
    /\ UNCHANGED <<t1, t2, timed, report, result, matcherVars, measureVars,
                   searchVars>>

\* sec = measure(func, text, pat); results.append((text_name, pat_label, algo_name, sec))
MainMeasure ==
    /\ pc = "loop"
    /\ cell < NumCells
    /\ \E sec \in Seconds :
          results' = Append(results, <<CellText(cell), CellLabel(cell),
                                       CellAlgo(cell), sec>>)
    /\ timed' = timed + 1
    /\ cell' = cell + 1
    /\ UNCHANGED <<pc, t1, t2, report, result, matcherVars, measureVars,
                   searchVars>>

\* the printed listings and the three "fastest" lines
MainReport ==
    /\ pc = "loop"
    /\ cell >= NumCells
    /\ report' =
          [listing |-> [tn \in {"text 1", "text 2"}, pl \in {"exists", "fake"} |->
                            Subset(results, tn, pl)],
           fastest |-> <<SumTime(results, {"text 1"})[1],
                         SumTime(results, {"text 2"})[1],
                         SumTime(results, {"text 1", "text 2"})[1]>>]
    /\ pc' = "done"
    /\ UNCHANGED <<t1, t2, results, cell, timed, result, matcherVars,
                   measureVars, searchVars>>

MainNext ==
    MainRead \/ PreflightExist1 \/ PreflightExist2 \/ PreflightFake \/ MainMeasure
    \/ MainReport

----------------------------------------------------------------------------
(* binary_search_upper_bound *)

\* the test of the loop body: arr[mid] >= x
\* faulty variant: a strict comparison
CandidateStrict(v, w) == v > w
Candidate(v, w) == v >= w

\* mid = (left + right) // 2
Mid(lo, hi) == (lo + hi) \div 2

SearchEntry ==
    /\ pc = "start"
    /\ left' = 0
    /\ right' = Len(arr) - 1
    /\ iterations' = 0
    /\ upper_bound' = PyNone
    /\ pc' = "bs_loop"
    /\ UNCHANGED <<arr, x, result, matcherVars, measureVars, mainVars>>

\* one iteration of: while left <= right
SearchStep ==
    /\ pc = "bs_loop"
    /\ left <= right
    /\ iterations' = iterations + 1
    /\ LET mid == Mid(left, right)
       IN  IF Candidate(At(arr, mid), x)
           THEN /\ upper_bound' = PyNum(At(arr, mid))
                /\ right' = mid - 1
                /\ UNCHANGED left
           ELSE /\ left' = mid + 1
                /\ UNCHANGED <<right, upper_bound>>
    /\ UNCHANGED <<pc, arr, x, result, matcherVars, measureVars, mainVars>>

SearchReturn ==
    /\ pc = "bs_loop"
    /\ left > right
    /\ result' = <<iterations, upper_bound>>
    /\ pc' = "done"
    /\ UNCHANGED <<matcherVars, measureVars, mainVars, searchVars>>

SearchNext == SearchEntry \/ SearchStep \/ SearchReturn

----------------------------------------------------------------------------
(* Initial states and specifications *)

IdleMatcher ==
    /\ i = 0 /\ j = 0 /\ shift = EmptyDict /\ lps = <<>> /\ length = 0
    /\ h = 0 /\ p_hash = 0 /\ t_hash = 0 /\ iters = 0

IdleMeasure ==
    /\ number = DefaultNumber /\ repeat = DefaultRepeat /\ t = <<>> /\ now = 0
    /\ t0 = 0 /\ cnt = 0 /\ calls = <<>> /\ args0 = <<>>

IdleMain ==
    /\ t1 = <<>> /\ t2 = <<>> /\ results = <<>> /\ cell = 0 /\ timed = 0
    /\ report = <<>>

IdleSearch ==
    /\ arr = <<>> /\ x = 0 /\ left = 0 /\ right = 0 /\ iterations = 0
    /\ upper_bound = PyNone

DefaultParams == {<<DefaultBase, DefaultMod>>}
SmallParams == (0..MaxBase) \X (1..MaxMod)

\* a call of one of the three matchers with the default base and modulus
Init ==
    /\ pc = "start"
    /\ result = PyNone
    /\ algo \in {"bmh", "kmp", "rk"}
    /\ text \in StringsUpTo(MaxTextLen)
    /\ pattern \in StringsUpTo(MaxPatLen)
    /\ base = DefaultBase /\ mod = DefaultMod
    /\ IdleMatcher /\ IdleMeasure /\ IdleMain /\ IdleSearch

Next == BmhNext \/ KmpNext \/ RkNext

Spec == Init /\ [][Next]_vars

\* a call of rabin_karp_search with any base >= 0 and modulus >= 1
InitRK ==
    /\ pc = "start"
    /\ result = PyNone
    /\ algo = "rk"
    /\ text \in StringsUpTo(MaxRkTextLen)
    /\ pattern \in StringsUpTo(MaxRkPatLen)
    /\ \E bm \in SmallParams \cup DefaultParams : base = bm[1] /\ mod = bm[2]
    /\ IdleMatcher /\ IdleMeasure /\ IdleMain /\ IdleSearch

SpecRK == InitRK /\ [][RkNext]_vars

\* a call of measure with number, repeat >= 1
InitMeasure ==
    /\ pc = "m_repeat"
    /\ result = PyNone
    /\ algo \in {"bmh", "kmp", "rk"}
    /\ text = <<"a", "b", "a">>
    /\ pattern \in {<<"b", "a">>, <<"b", "b">>}
    /\ base = DefaultBase /\ mod = DefaultMod
    /\ number \in 1..MaxNumber
    /\ repeat \in 1..MaxRepeat
    /\ t = <<>> /\ now = 0 /\ t0 = 0 /\ cnt = 0 /\ calls = <<>>
    /\ args0 = <<text, pattern>>
    /\ IdleMatcher /\ IdleMain /\ IdleSearch

SpecMeasure == InitMeasure /\ [][MeasureNext]_vars

\* a run of main
InitMain ==
    /\ pc = "start"
    /\ result = PyNone
    /\ algo = "bmh" /\ text = <<>> /\ pattern = <<>>
    /\ base = DefaultBase /\ mod = DefaultMod
    /\ IdleMatcher /\ IdleMeasure /\ IdleMain /\ IdleSearch

SpecMain == InitMain /\ [][MainNext]_vars

SortedArrays ==
    {a \in UNION {[1..q -> 1..MaxVal] : q \in 0..MaxArrLen} :
        \A k \in 1..(Len(a) - 1) : a[k] <= a[k + 1]}

\* a call of binary_search_upper_bound on an array sorted in ascending order
InitSearch ==
    /\ pc = "start"
    /\ result = PyNone
    /\ algo = "bmh" /\ text = <<>> /\ pattern = <<>>
    /\ base = DefaultBase /\ mod = DefaultMod
    /\ arr \in SortedArrays
    /\ x \in 0..(MaxVal + 1)
    /\ left = 0 /\ right = 0 /\ iterations = 0 /\ upper_bound = PyNone
    /\ IdleMatcher /\ IdleMeasure /\ IdleMain

SpecSearch == InitSearch /\ [][SearchNext]_vars

----------------------------------------------------------------------------
(* Reference definitions for the claims *)

\* (a * b) % md for a, b >= 0, computed without the model's Python operators
RECURSIVE RefMul(_, _, _)
RefMul(a, b, md) ==
    IF a = 0 \/ b = 0 THEN 0
    ELSE (((2 * RefMul(a % md, b \div 2, md)) % md) + (b % 2) * (a % md)) % md

RECURSIVE RefPow(_, _, _)
RefPow(b, e, md) == IF e = 0 THEN 1 % md ELSE RefMul(RefPow(b, e - 1, md), b, md)

\* sum over k of ord(w[k]) * b^(len(w) - 1 - k), reduced modulo md
RECURSIVE RefHashFrom(_, _, _, _)
RefHashFrom(w, k, b, md) ==
    IF k >= Len(w) THEN 0
    ELSE (RefMul(RefPow(b, Len(w) - 1 - k, md), Ord(At(w, k)), md)
          + RefHashFrom(w, k + 1, b, md)) % md

RefHash(w, b, md) == RefHashFrom(w, 0, b, md)

\* length of the longest proper prefix of w that is also a suffix of w
Border(w) ==
    LET cands == {q \in 0..(Len(w) - 1) :
                     SubSeq(w, 1, q) = SubSeq(w, Len(w) - q + 1, Len(w))}
    IN  CHOOSE q \in cands : \A r \in cands : r <= q

\* index of the last occurrence of c in pattern[0 .. m-2]
PrefixChars(pat) == {pat[k] : k \in 1..(Len(pat) - 1)}
LastIndexInPrefix(pat, c) ==
    LET idx == {k \in 0..(Len(pat) - 2) : At(pat, k) = c}
    IN  CHOOSE k \in idx : \A q \in idx : q <= k

----------------------------------------------------------------------------
(* Claims about the matchers: specification Spec *)

\* C1: whenever one of the three matchers returns (default base and modulus),
\* the returned value is the result of the naive reference search: the
\* leftmost occurrence of the pattern (0 for the empty pattern), or the
\* not-found value when the pattern does not occur.
C1_AgreeWithNaive ==
    pc = "done" => result = PyInt(Naive(text, pattern))

\* a matcher found a non-empty pattern at a position that is not the first
\* alignment, in a text that holds a later occurrence as well
C1_Witness ==
    /\ pc = "done" /\ algo = "rk"
    /\ m >= 2 /\ result.val >= 1
    /\ Cardinality(Occurrences(text, pattern)) >= 2

\* C3, as stated: the matchers return an optional non-negative integer --
\* every integer returned is non-negative, and a pattern that is not found
\* (also one longer than the text) yields None.
C3_OptionalNonNegative ==
    pc = "done" =>
        /\ result.type = "int" => result.val >= 0
        /\ Occurrences(text, pattern) = {} => result = PyNone

\* C3, amended: the matchers always return an integer -- a non-negative
\* index within the text when the pattern occurs, and the integer -1 (never
\* None) exactly when it does not occur, which covers every pattern longer
\* than the text.
C3_IntegerWithMinusOne ==
    pc = "done" =>
        /\ result.type = "int"
        /\ result.val >= -1
        /\ result.val >= 0 => result.val + m <= n
        /\ result.val = -1 <=> Occurrences(text, pattern) = {}
        /\ m > n => result = PyInt(-1)

\* a matcher returned for a pattern longer than the text
C3_Witness ==
    pc = "done" /\ algo = "kmp" /\ m > n /\ result = PyInt(-1)

\* C7: when the loop that builds lps has ended, lps has length m and entry k
\* is the length of the longest proper prefix of pattern[0..k] that is also
\* its suffix (so lps[0] = 0 and lps[k] <= k).
C7_LpsIsBorderTable ==
    pc = "kmp_scan" =>
        /\ Len(lps) = m
        /\ \A k \in 0..(m - 1) :
              /\ At(lps, k) = Border(Slice(pattern, 0, k + 1))
              /\ At(lps, k) <= k
        /\ At(lps, 0) = 0

\* the table of a pattern whose construction fell back to a non-zero prefix
\* length: a a b a a a
C7_Witness ==
    /\ pc = "kmp_scan"
    /\ pattern = <<"a", "a", "b", "a", "a", "a">>
    /\ lps = <<0, 1, 0, 1, 2, 2>>

\* C8: every iteration of the scan loop either advances the text index by
\* exactly 1 or keeps it and strictly decreases the pattern index; the
\* pattern index is within 0..m-1 at every comparison; the loop runs at most
\* 2n iterations.
C8_ScanNeverBacktracks ==
    /\ [][KmpScanStep => (i' = i + 1 \/ (i' = i /\ j' < j))]_vars
    /\ [](pc = "kmp_scan" => (i <= n /\ (i < n => j \in 0..(m - 1))))
    /\ [](algo = "kmp" => iters <= 2 * n)

\* a scan that fell back at least once (more iterations than text positions
\* consumed) and went on to report a match
C8_Witness ==
    /\ pc = "done" /\ algo = "kmp"
    /\ result.val >= 1
    /\ iters > result.val + m

\* C10: once the shift table is built its keys are exactly the characters of
\* pattern[0 .. m-2], each mapped to m - 1 - (index of its last occurrence
\* there); a mismatch at alignment i advances i by the value of
\* text[i + m - 1] so defined, or by m when that character is not a key.
C10_ShiftTable ==
    /\ [](pc = "bmh_scan" =>
            /\ DOMAIN shift = PrefixChars(pattern)
            /\ \A c \in DOMAIN shift :
                  shift[c] = m - 1 - LastIndexInPrefix(pattern, c))
    /\ [][(BmhScan /\ j' >= 0) =>
            LET c == At(text, i + m - 1)
            IN  i' - i = IF c \in PrefixChars(pattern)
                         THEN m - 1 - LastIndexInPrefix(pattern, c)
                         ELSE m]_vars

\* the scan has advanced past a mismatch, with a table in which a repeated
\* character was overwritten and a text character that is not a key
C10_Witness ==
    /\ pc = "bmh_scan" /\ i = m /\ m >= 3
    /\ Cardinality(DOMAIN shift) < m - 1
    /\ At(text, m - 1) \notin DOMAIN shift

----------------------------------------------------------------------------
(* Claims about rabin_karp_search with any base and modulus: SpecRK *)

\* C2: for every base >= 0 and modulus >= 1 the value returned is never the
\* index of a window that differs from the pattern and never skips an
\* occurrence: it is the leftmost occurrence, or not-found when there is none.
C2_NoFalsePositiveNoMiss ==
    pc = "done" =>
        /\ result.val >= 0 =>
              /\ Occurs(text, pattern, result.val)
              /\ \A k \in 0..(result.val - 1) : ~Occurs(text, pattern, k)
        /\ result.val < 0 =>
              /\ result = NotFound
              /\ \A k \in 0..n : ~Occurs(text, pattern, k)

\* the search ended not-found although some window that differs from the
\* pattern has the pattern's hash
C2_Witness ==
    /\ pc = "done" /\ m >= 2 /\ m <= n
    /\ result = NotFound
    /\ \E k \in 0..(n - m) :
          /\ Slice(text, k, k + m) # pattern
          /\ RefHash(Slice(text, k, k + m), base, mod) = RefHash(pattern, base, mod)

\* C9: at the start of every iteration i of the window loop t_hash is in
\* [0, mod) and is the polynomial hash of text[i : i+m], the function that
\* also produced p_hash from the pattern; the value left by the subtraction
\* of the outgoing character is never negative.
C9_RollingHash ==
    /\ (pc = "rk_window" /\ i <= n - m) =>
          /\ t_hash \in 0..(mod - 1)
          /\ t_hash = RefHash(Slice(text, i, i + m), base, mod)
          /\ p_hash = RefHash(pattern, base, mod)
    /\ pc = "rk_push" => t_hash \in 0..(mod - 1)

\* a window reached by a roll under the default modulus in which
\* ord(text[i - 1]) * h exceeded the hash of the previous window, so that the
\* difference was negative before the reduction
C9_Witness ==
    /\ pc = "rk_window" /\ i >= 1 /\ i <= n - m
    /\ mod = DefaultMod
    /\ RefHash(Slice(text, i - 1, i - 1 + m), base, mod) \div Ord(At(text, i - 1))
          < RefPow(base, m - 1, mod)

----------------------------------------------------------------------------
(* Claim about measure: SpecMeasure *)

RECURSIVE GroupTotal(_, _)
GroupTotal(log, g) ==
    IF log = <<>> THEN 0
    ELSE (IF log[Len(log)].group = g THEN log[Len(log)].dur ELSE 0)
         + GroupTotal(SubSeq(log, 1, Len(log) - 1), g)

\* C4: for number, repeat >= 1, measure calls func(text, pat) exactly
\* repeat * number times, in repeat groups of number consecutive calls, and
\* returns the smallest group total divided by number, for a found and for a
\* not-found pattern alike, with text and pat unchanged.
C4_BestGroupPerCall ==
    pc = "done" =>
        /\ Len(calls) = repeat * number
        /\ \A k \in 1..Len(calls) :
              /\ calls[k].group = (k - 1) \div number
              /\ calls[k].args = args0
        /\ <<text, pattern>> = args0
        /\ LET totals == {GroupTotal(calls, g) : g \in 0..(repeat - 1)}
           IN  result = PyNum(Ratio(MinOf(totals), number))

\* measure returned for a pattern that is not found, after several groups of
\* several calls whose totals differ
C4_Witness ==
    /\ pc = "done" /\ repeat >= 2 /\ number >= 2
    /\ Occurrences(text, pattern) = {}
    /\ ListMin(t) < ListMax(t)
    /\ t[1] = ListMax(t)

----------------------------------------------------------------------------
(* Claim about main: SpecMain *)

PreflightHolds ==
    /\ Occurrences(t1, Exist1) # {}
    /\ Occurrences(t2, Exist2) # {}
    /\ Occurrences(t1, Fake) = {}
    /\ Occurrences(t2, Fake) = {}

\* C5: measure is called and results is appended to only after every
\* pre-flight check has passed; when a check fails the run is aborted with no
\* call of measure made and results empty.
C5_PreflightBeforeTiming ==
    /\ (timed > 0 \/ results # <<>> \/ pc \in {"loop", "done"}) => PreflightHolds
    /\ pc = "aborted" => (~PreflightHolds /\ timed = 0 /\ results = <<>>)
    /\ Len(results) = timed

\* the run aborted on the last check alone: both expected patterns are
\* present and the fake pattern occurs in the second text only
C5_Witness ==
    /\ pc = "aborted"
    /\ Occurrences(t1, Exist1) # {} /\ Occurrences(t2, Exist2) # {}
    /\ Occurrences(t1, Fake) = {} /\ Occurrences(t2, Fake) # {}

----------------------------------------------------------------------------
(* Claim about binary_search_upper_bound: SpecSearch *)

\* C6: for a sorted array the second component returned is the smallest
\* element >= x, or None when there is none; the empty array gives (0, None).
C6_UpperBound ==
    pc = "done" =>
        /\ LET ge == {arr[k] : k \in {q \in 1..Len(arr) : arr[q] >= x}}
           IN  result[2] = IF ge = {} THEN PyNone ELSE PyNum(MinOf(ge))
        /\ arr = <<>> => result = <<0, PyNone>>

\* the search returned an element strictly greater than x from an array with
\* duplicates and smaller elements
C6_Witness ==
    /\ pc = "done" /\ Len(arr) >= 4
    /\ arr[1] < x /\ arr[2] = arr[3]
    /\ result[2].type = "float" /\ result[2].val > x

====
